---- MODULE Spec2Model ----
(***************************************************************************)
(* plot_results.py: one run of plot_results(mat_file) over a DyMat result  *)
(* file.  The reader is opaque: names(), abscissa(name), data(name); the   *)
(* last two either raise or give a sequence of samples.  The run is one    *)
(* linear pass: time base, 14 get_var calls, six panels, save, summary.    *)
(***************************************************************************)
EXTENDS Integers, Sequences, FiniteSets, TLC

VARIABLES dm, mat_file, pc, time, v, nres, out, subtitle, fig, output_file, saved

vars == <<dm, mat_file, pc, time, v, nres, out, subtitle, fig, output_file, saved>>

(* ------------------------------ bounds --------------------------------- *)

\* samples in a full-length series / abscissa
NSamples == 2
\* signals of the result file that deviate from the nominal file
MaxFaults == 2
\* variables listed by names() in the time-base specification
MaxNames == 2
\* characters in an input path in the path specification
MaxPathLen == 5

(* --------------------------- values, results --------------------------- *)

\* a call that raised (dm.data / dm.abscissa: `except Exception` sees this)
Raised == [ok |-> FALSE, s |-> <<>>]
\* Python None, what get_var returns for a failed lookup
None == [ok |-> FALSE, s |-> <<>>]
\* an array of samples
Some(s) == [ok |-> TRUE, s |-> s]

RECURSIVE SeqMax(_)
\* np.max over a non-empty array
SeqMax(s) ==
  IF Len(s) = 1 THEN s[1]
  ELSE LET m == SeqMax(Tail(s)) IN IF s[1] >= m THEN s[1] ELSE m

\* Python max(a, b)
Max2(a, b) == IF a >= b THEN a ELSE b

(* ------------------------------ names ---------------------------------- *)

\* the 14 get_var calls, in call order
VarNames ==
  << "boiler.Q_actual", "boiler.Q_modulated_kBTU", "boiler.modulationPercent",
     "boiler.T_inlet", "boiler.T_outlet", "boiler.m_flow",
     "boiler.modulationController.T_setpoint", "boiler.highLimitController.T_max",
     "baseboardSupplyTempSensor.T", "baseboardHeatLoss.Q_flow",
     "baseboardPiping.mediums[1].T", "baseboardPiping.mediums[10].T",
     "roomAir.T", "secondaryPump.m_flow" >>

\* names read with dm.data directly, inside try blocks
DirectNames ==
  << "boiler.modulationController.Q_min", "boiler.modulationController.Q_max",
     "boiler.primaryPump.N", "secondaryPump.N" >>

\* every name the run asks the reader for, in the order the file lists them
NameOrder == VarNames \o DirectNames

SignalNames == {NameOrder[i] : i \in 1..Len(NameOrder)}

\* signals whose sample values decide an axis limit
ScaledNames ==
  {"boiler.m_flow", "secondaryPump.m_flow", "boiler.primaryPump.N", "secondaryPump.N"}

(* ---------------------------- data source ------------------------------ *)

\* a full-length series: samples 1..NSamples (an abscissa: the same, as seconds)
FullSeries == [i \in 1..NSamples |-> i]

\* the ways one variable of a result file deviates from the nominal file
Kinds(n) ==
  {"absent", "empty", "short"} \cup (IF n \in ScaledNames THEN {"zero"} ELSE {})

\* what dm.data(n) gives for a variable of each kind
Deviate(kind) ==
  CASE kind = "absent" -> Raised
    [] kind = "empty"  -> Some(<<>>)
    [] kind = "short"  -> Some(SubSeq(FullSeries, 1, NSamples - 1))
    [] kind = "zero"   -> Some([i \in 1..NSamples |-> 0])

NominalData == [n \in SignalNames |-> Some(FullSeries)]

\* which variables deviate: j positions of the file order, ascending
FaultSets(j) ==
  {s \in [1..j -> 1..Len(NameOrder)] : \A i \in 1..(j - 1) : s[i] < s[i + 1]}

\* how they deviate: a kind for each, among the kinds of that variable
FaultKinds(s) ==
  {ks \in [DOMAIN s -> {"absent", "empty", "short", "zero"}] :
     \A i \in DOMAIN s : ks[i] \in Kinds(NameOrder[s[i]])}

\* the data of the nominal file with the variables of s deviating as ks says
Faulty(s, ks) ==
  [n \in SignalNames |->
     IF \E i \in DOMAIN s : NameOrder[s[i]] = n
     THEN Deviate(ks[CHOOSE i \in DOMAIN s : NameOrder[s[i]] = n])
     ELSE NominalData[n]]

\* names() of a file: the variables it holds, in file order
Listed(d) == SelectSeq(NameOrder, LAMBDA n : d[n].ok)

\* abscissa(n) of a file: a variable's time vector is as long as its data
BlockAbscissa(d) ==
  [n \in SignalNames |-> IF d[n].ok THEN Some(SubSeq(FullSeries, 1, Len(d[n].s))) ELSE Raised]

\* a result file as the reader shows it
DataSource(d) == [names |-> Listed(d), absc |-> BlockAbscissa(d), data |-> d]

\* dm.abscissa(name): raises for a name the file does not hold
abscissa(name) == IF name \in DOMAIN dm.absc THEN dm.absc[name] ELSE Raised

\* dm.data(name): raises for a name the file does not hold
data(name) == IF name \in DOMAIN dm.data THEN dm.data[name] ELSE Raised

(* ------------------------------ console -------------------------------- *)

Line(k, a) == [k |-> k, a |-> a]

(* ----------------------------- time base ------------------------------- *)

\* time-base resolution without the fallback of lines 38-40
resolve_time_base_primary_only ==
  LET primary == abscissa("boiler.Q_actual")
  IN  IF ~primary.ok THEN [ok |-> FALSE, s |-> <<>>, msg |-> "Could not extract time vector"]
      ELSE IF Len(primary.s) = 0
           THEN [ok |-> FALSE, s |-> <<>>, msg |-> "Time vector is empty"]
      ELSE [ok |-> TRUE, s |-> primary.s, msg |-> ""]

\* time-base resolution without the emptiness check of lines 45-47
resolve_time_base_unchecked ==
  LET primary == abscissa("boiler.Q_actual")
      fallback == IF Len(dm.names) = 0 THEN Raised ELSE abscissa(dm.names[1])
      t == IF primary.ok THEN primary ELSE fallback
  IN  IF ~t.ok THEN [ok |-> FALSE, s |-> <<>>, msg |-> "Could not extract time vector"]
      ELSE [ok |-> TRUE, s |-> t.s, msg |-> ""]

\* lines 35-47: the primary signal's abscissa, else the first listed
\* variable's; an empty result is fatal.  [ok, s, msg]
resolve_time_base ==
  LET primary == abscissa("boiler.Q_actual")
      fallback == IF Len(dm.names) = 0 THEN Raised ELSE abscissa(dm.names[1])
      t == IF primary.ok THEN primary ELSE fallback
  IN  IF ~t.ok THEN [ok |-> FALSE, s |-> <<>>, msg |-> "Could not extract time vector"]
      ELSE IF Len(t.s) = 0 THEN [ok |-> FALSE, s |-> <<>>, msg |-> "Time vector is empty"]
      ELSE [ok |-> TRUE, s |-> t.s, msg |-> ""]

(* ------------------------------ get_var -------------------------------- *)

\* get_var without the warning of line 56
get_var_silent(name) ==
  LET r == data(name) IN
  IF r.ok THEN [val |-> r, warn |-> <<>>] ELSE [val |-> None, warn |-> <<>>]

\* lines 52-57: the series, or None and one warning.  [val, warn]
get_var(name) ==
  LET r == data(name) IN
  IF r.ok THEN [val |-> r, warn |-> <<>>]
  ELSE [val |-> None, warn |-> <<Line("Warning", name)>>]

(* --------------------------- resolved signals -------------------------- *)

boiler_Q == v["boiler.Q_actual"]
boiler_Q_modulated == v["boiler.Q_modulated_kBTU"]
boiler_modulation_percent == v["boiler.modulationPercent"]
boiler_T_inlet == v["boiler.T_inlet"]
boiler_T_outlet == v["boiler.T_outlet"]
boiler_m_flow == v["boiler.m_flow"]
boiler_T_setpoint == v["boiler.modulationController.T_setpoint"]
boiler_high_limit == v["boiler.highLimitController.T_max"]
baseboard_supply_T == v["baseboardSupplyTempSensor.T"]
baseboard_heat_loss == v["baseboardHeatLoss.Q_flow"]
baseboard_inlet_T == v["baseboardPiping.mediums[1].T"]
baseboard_outlet_T == v["baseboardPiping.mediums[10].T"]
room_T == v["roomAir.T"]
secondary_pump_m_flow == v["secondaryPump.m_flow"]

(* ------------------------------- figure -------------------------------- *)

\* an axis limit matplotlib chooses itself
Auto == [auto |-> TRUE, val |-> 0]
\* an axis limit the script sets
Lim(x) == [auto |-> FALSE, val |-> x]

\* one Axes of plt.subplots(3, 2): nothing drawn, both limits automatic
NewAxes ==
  [plots |-> {}, refs |-> {}, text |-> {}, ybottom |-> Auto, ytop |-> Auto,
   twin |-> FALSE, tplots |-> {}, tybottom |-> Auto, tytop |-> Auto,
   legend |-> "none", off |-> FALSE]

\* a panel's block ran to its end
Drawn(ax) == [raised |-> FALSE, ax |-> ax]
\* a call in the panel's block raised past plot_results
Throw(ax) == [raised |-> TRUE, ax |-> ax]

\* ax.plot(time_hours, y): matplotlib raises ValueError unless x and y have
\* the same first dimension
Fits(y) == Len(y.s) = Len(time)

\* x[0]: IndexError on an empty array (and nothing to index when x raised)
First(x) == IF x.ok /\ Len(x.s) > 0 THEN [ok |-> TRUE, x |-> x.s[1]] ELSE [ok |-> FALSE, x |-> 0]

\* np.max(x): ValueError on an empty array
NpMax(x) == IF Len(x.s) > 0 THEN [ok |-> TRUE, x |-> SeqMax(x.s)] ELSE [ok |-> FALSE, x |-> 0]

\* m * 15.85, in hundredths of a GPM
Gpm(m) == m * 1585

\* max_gpm * 1.2 if max_gpm > 0 else 10, in thousandths of a GPM
FlowTop(max_gpm) == IF max_gpm > 0 THEN max_gpm * 12 ELSE 10 * 1000

\* max_speed * 1.2 if max_speed > 0 else 1000, in tenths of an RPM
SpeedTop(max_speed) == IF max_speed > 0 THEN max_speed * 12 ELSE 1000 * 10

\* ax.set_ylim(top=0) in place of ax.set_ylim(bottom=0)
set_ylim_top(ax) == [ax EXCEPT !.ytop = Lim(0)]

\* ax.set_ylim(bottom=0): the top stays automatic
set_ylim_bottom(ax) == [ax EXCEPT !.ybottom = Lim(0)]

\* lines 86-93: the subtitle names the setpoint when its first sample reads
Subtitle ==
  IF First(data("boiler.modulationController.T_setpoint")).ok
  THEN "Setpoint | Generated" ELSE "Generated"

\* lines 108-114: both reference lines, or neither when either read fails
QRefLines(ax) ==
  LET q_min == First(data("boiler.modulationController.Q_min"))
      q_max == First(data("boiler.modulationController.Q_max"))
  IN  IF q_min.ok /\ q_max.ok THEN [ax EXCEPT !.refs = @ \cup {"Q_min", "Q_max"}] ELSE ax

\* lines 95-132, Plot 1: Boiler Heat Output
Plot1(ax) ==
  IF ~boiler_Q.ok THEN Drawn(ax)
  ELSE IF ~Fits(boiler_Q) THEN Throw(ax)
  ELSE
    LET a1 == QRefLines(set_ylim_bottom([ax EXCEPT !.plots = @ \cup {"Actual Output (kBTU/h)"}]))
    IN  IF boiler_Q_modulated.ok /\ ~Fits(boiler_Q_modulated) THEN Throw(a1)
        ELSE
          LET a2 == IF boiler_Q_modulated.ok
                    THEN [a1 EXCEPT !.plots = @ \cup {"Desired Output"}] ELSE a1
          IN  IF boiler_modulation_percent.ok
              THEN IF ~Fits(boiler_modulation_percent) THEN Throw([a2 EXCEPT !.twin = TRUE])
                   ELSE Drawn([a2 EXCEPT !.twin = TRUE, !.tplots = {"Modulation %"},
                                         !.tybottom = Lim(0), !.tytop = Lim(100),
                                         !.legend = "merged"])
              ELSE Drawn([a2 EXCEPT !.legend = "own"])

\* lines 140-145: a reference line at the first sample of a limit signal
TempRefLine(ax, x, label) ==
  IF ~x.ok THEN Drawn(ax)
  ELSE IF ~First(x).ok THEN Throw(ax)
  ELSE Drawn([ax EXCEPT !.refs = @ \cup {label}])

\* lines 134-150, Plot 2: Boiler Temperatures
Plot2(ax) ==
  IF ~(boiler_T_inlet.ok /\ boiler_T_outlet.ok) THEN Drawn(ax)
  ELSE IF ~Fits(boiler_T_inlet) THEN Throw(ax)
  ELSE IF ~Fits(boiler_T_outlet) THEN Throw([ax EXCEPT !.plots = {"Inlet"}])
  ELSE
    LET a1 == [ax EXCEPT !.plots = {"Inlet", "Outlet"}]
        r1 == TempRefLine(a1, boiler_T_setpoint, "Setpoint")
        r2 == TempRefLine(r1.ax, boiler_high_limit, "High Limit")
    IN  IF r1.raised THEN r1
        ELSE IF r2.raised THEN r2
        ELSE Drawn([r2.ax EXCEPT !.legend = "own"])

\* lines 171-187: the pump speeds on a twin axis; any failure inside the try
\* leaves what was drawn so far and falls to the panel's own legend
PumpSpeeds(ax) ==
  LET primary_pump_speed == data("boiler.primaryPump.N")
      secondary_pump_speed == data("secondaryPump.N")
      own == [ax EXCEPT !.legend = "own"]
  IN  IF ~primary_pump_speed.ok \/ ~secondary_pump_speed.ok THEN own
      ELSE IF ~Fits(primary_pump_speed) THEN [own EXCEPT !.twin = TRUE]
      ELSE IF ~Fits(secondary_pump_speed)
           THEN [own EXCEPT !.twin = TRUE, !.tplots = {"Primary Pump"}]
      ELSE
        LET both == [ax EXCEPT !.twin = TRUE, !.tplots = {"Primary Pump", "Secondary Pump"}]
            mp == NpMax(primary_pump_speed)
            ms == NpMax(secondary_pump_speed)
        IN  IF ~mp.ok \/ ~ms.ok THEN [both EXCEPT !.legend = "own"]
            ELSE [both EXCEPT !.tybottom = Lim(0), !.tytop = Lim(SpeedTop(Max2(mp.x, ms.x))),
                              !.legend = "merged"]

\* lines 166-169: the flow axis from 0 to 20% above the largest GPM value
FlowYLim(ax, max_gpm) == [ax EXCEPT !.ybottom = Lim(0), !.ytop = Lim(FlowTop(max_gpm))]

\* lines 152-187, Plot 3: Flow Rates & Pump Speeds
Plot3(ax) ==
  IF ~(boiler_m_flow.ok \/ secondary_pump_m_flow.ok) THEN Drawn(ax)
  ELSE IF boiler_m_flow.ok /\ ~Fits(boiler_m_flow) THEN Throw(ax)
  ELSE
    LET a1 == IF boiler_m_flow.ok THEN [ax EXCEPT !.plots = @ \cup {"Primary Loop"}] ELSE ax
    IN  IF secondary_pump_m_flow.ok /\ ~Fits(secondary_pump_m_flow) THEN Throw(a1)
        ELSE
          LET a2 == IF secondary_pump_m_flow.ok
                    THEN [a1 EXCEPT !.plots = @ \cup {"Secondary Loop"}] ELSE a1
              mp == IF boiler_m_flow.ok THEN NpMax(boiler_m_flow) ELSE [ok |-> TRUE, x |-> 0]
              ms == IF secondary_pump_m_flow.ok THEN NpMax(secondary_pump_m_flow)
                    ELSE [ok |-> TRUE, x |-> 0]
          IN  IF ~mp.ok \/ ~ms.ok THEN Throw(a2)
              ELSE Drawn(PumpSpeeds(FlowYLim(a2, Max2(Gpm(mp.x), Gpm(ms.x)))))

\* lines 189-203, Plot 4: Baseboard Heat Loss
Plot4(ax) ==
  IF baseboard_heat_loss.ok
  THEN IF ~Fits(baseboard_heat_loss) THEN Throw(ax)
       ELSE Drawn([set_ylim_bottom([ax EXCEPT !.plots = {"Heat to House"}])
                     EXCEPT !.legend = "own"])
  ELSE Drawn([ax EXCEPT !.text = {"Baseboard heat loss data not available"}])

\* lines 210-211, 219-220: the room temperature joins the panel when present
RoomLine(ax) ==
  IF ~room_T.ok THEN Drawn([ax EXCEPT !.legend = "own"])
  ELSE IF ~Fits(room_T) THEN Throw(ax)
  ELSE Drawn([ax EXCEPT !.plots = @ \cup {"Room Temp"}, !.legend = "own"])

\* lines 205-225, Plot 5: Baseboard & Room Temperatures
Plot5(ax) ==
  IF baseboard_inlet_T.ok /\ baseboard_outlet_T.ok
  THEN IF ~Fits(baseboard_inlet_T) THEN Throw(ax)
       ELSE IF ~Fits(baseboard_outlet_T) THEN Throw([ax EXCEPT !.plots = {"Baseboard Inlet"}])
       ELSE RoomLine([ax EXCEPT !.plots = {"Baseboard Inlet", "Baseboard Outlet"}])
  ELSE IF baseboard_supply_T.ok
  THEN IF ~Fits(baseboard_supply_T) THEN Throw(ax)
       ELSE RoomLine([ax EXCEPT !.plots = {"Baseboard Supply"}])
  ELSE Drawn(ax)

\* lines 227-229, Plot 6: hidden
Plot6(ax) == Drawn([ax EXCEPT !.off = TRUE])

(* ---------------------------- output path ------------------------------ *)

\* the characters of '.mat' and of '_plots.png'
DotMat == <<".", "m", "a", "t">>
PlotsPng == <<"_", "p", "l", "o", "t", "s", ".", "p", "n", "g">>

RECURSIVE replace(_, _, _)
\* str.replace(old, new): every non-overlapping occurrence, left to right
replace(s, old, new) ==
  IF Len(s) < Len(old) THEN s
  ELSE IF SubSeq(s, 1, Len(old)) = old
       THEN new \o replace(SubSeq(s, Len(old) + 1, Len(s)), old, new)
       ELSE <<s[1]>> \o replace(Tail(s), old, new)

\* line 234: output_file = mat_file.replace('.mat', '_plots.png')
OutputFile(path) == replace(path, DotMat, PlotsPng)

(* ------------------------------ summary -------------------------------- *)

\* a group of the summary: the reads it makes before its first print, and its lines
Group(cond, reads_ok, lines) ==
  IF ~cond THEN [raised |-> FALSE, lines |-> <<>>]
  ELSE IF ~reads_ok THEN [raised |-> TRUE, lines |-> <<>>]
  ELSE [raised |-> FALSE, lines |-> lines]

S(a) == Line("summary", a)

\* lines 242-299, group by group in print order
SummaryGroups ==
  << Group(TRUE, TRUE, <<S("rule"), S("SIMULATION SUMMARY"), S("rule"), S("Simulation time")>>),
     Group(boiler_Q.ok, NpMax(boiler_Q).ok,
           <<S("Boiler Heat Output:"), S("heat Average"), S("heat Maximum")>>),
     Group(boiler_T_inlet.ok /\ boiler_T_outlet.ok, TRUE,
           <<S("Boiler Temperatures:"), S("boiler Average Inlet"), S("boiler Average Outlet"),
             S("boiler Average dT")>>),
     Group(baseboard_inlet_T.ok /\ baseboard_outlet_T.ok, TRUE,
           <<S("Baseboard Temperatures:"), S("baseboard Average Inlet"),
             S("baseboard Average Outlet"), S("baseboard Average dT")>>),
     Group(~(baseboard_inlet_T.ok /\ baseboard_outlet_T.ok) /\ baseboard_supply_T.ok,
           First(baseboard_supply_T).ok,
           <<S("Baseboard Supply:"), S("supply Average Temperature"),
             S("supply Final Temperature")>>),
     Group(baseboard_heat_loss.ok, TRUE,
           <<S("Baseboard Heat to Room:"), S("heat loss Average")>>),
     Group(room_T.ok, First(room_T).ok,
           <<S("Room Temperature:"), S("room Start"), S("room End"), S("room Rise")>>),
     Group(boiler_m_flow.ok, TRUE, <<S("Flow Rates:"), S("Primary Loop")>>),
     Group(secondary_pump_m_flow.ok, TRUE, <<S("Secondary Loop")>>),
     Group(TRUE, TRUE, <<S("closing rule")>>) >>

RECURSIVE PrintGroups(_)
\* the groups print in order until one raises.  [raised, lines]
PrintGroups(gs) ==
  IF Len(gs) = 0 THEN [raised |-> FALSE, lines |-> <<>>]
  ELSE IF gs[1].raised THEN [raised |-> TRUE, lines |-> <<>>]
  ELSE LET rest == PrintGroups(Tail(gs)) IN
       [raised |-> rest.raised, lines |-> gs[1].lines \o rest.lines]

(* ------------------------------- steps --------------------------------- *)

\* lines 28-49
ResolveTimeBase ==
  /\ pc = "start"
  /\ LET r == resolve_time_base
         head == <<Line("Loading", ""), Line("Found", "")>>
     IN  IF r.ok
         THEN /\ time' = r.s
              /\ out' = out \o head
              /\ pc' = "vars"
         ELSE /\ time' = time
              /\ out' = out \o head \o <<Line("Error", r.msg)>>
              /\ pc' = "aborted"
  /\ UNCHANGED <<dm, mat_file, v, nres, subtitle, fig, output_file, saved>>

RECURSIVE Warnings(_)
\* the warnings of the get_var calls for the names of a sequence, in call order
Warnings(names) ==
  IF Len(names) = 0 THEN <<>> ELSE get_var(names[1]).warn \o Warnings(Tail(names))

\* lines 59-78: the 14 get_var calls
ExtractVariables ==
  /\ pc = "vars"
  /\ nres = 0
  /\ v' = [n \in DOMAIN v |-> get_var(n).val]
  /\ out' = out \o Warnings(VarNames)
  /\ nres' = Len(VarNames)
  /\ UNCHANGED <<dm, mat_file, pc, time, subtitle, fig, output_file, saved>>

\* lines 80-93: the figure, its title and subtitle
CreateFigure ==
  /\ pc = "vars"
  /\ nres = Len(VarNames)
  /\ subtitle' = Subtitle
  /\ fig' = [k \in 1..6 |-> NewAxes]
  /\ pc' = "plot1"
  /\ UNCHANGED <<dm, mat_file, time, v, nres, out, output_file, saved>>

\* one panel's block: on to the next panel, or the exception leaves plot_results
Panel(here, k, r, next) ==
  /\ pc = here
  /\ fig' = [fig EXCEPT ![k] = r.ax]
  /\ pc' = IF r.raised THEN "raised" ELSE next
  /\ UNCHANGED <<dm, mat_file, time, v, nres, out, subtitle, output_file, saved>>

BoilerHeatOutput == Panel("plot1", 1, Plot1(fig[1]), "plot2")
BoilerTemperatures == Panel("plot2", 2, Plot2(fig[2]), "plot3")
FlowRates == Panel("plot3", 3, Plot3(fig[3]), "plot4")
BaseboardHeatLoss == Panel("plot4", 4, Plot4(fig[4]), "plot5")
BaseboardRoomTemperatures == Panel("plot5", 5, Plot5(fig[5]), "plot6")
ReservedPanel == Panel("plot6", 6, Plot6(fig[6]), "save")

\* lines 231-239: the image is written to the derived path
SaveFigure ==
  /\ pc = "save"
  /\ output_file' = OutputFile(mat_file)
  /\ saved' = saved \cup {OutputFile(mat_file)}
  /\ out' = out \o <<Line("Plots saved to", "")>>
  /\ pc' = "summary"
  /\ UNCHANGED <<dm, mat_file, time, v, nres, subtitle, fig>>

\* lines 241-299
PrintSummary ==
  /\ pc = "summary"
  /\ LET r == PrintGroups(SummaryGroups)
     IN  /\ out' = out \o r.lines
         /\ pc' = IF r.raised THEN "raised" ELSE "done"
  /\ UNCHANGED <<dm, mat_file, time, v, nres, subtitle, fig, output_file, saved>>

Next ==
  \/ ResolveTimeBase
  \/ ExtractVariables
  \/ CreateFigure
  \/ BoilerHeatOutput
  \/ BoilerTemperatures
  \/ FlowRates
  \/ BaseboardHeatLoss
  \/ BaseboardRoomTemperatures
  \/ ReservedPanel
  \/ SaveFigure
  \/ PrintSummary

(* --------------------------- initial states ---------------------------- *)

\* the default file name of line 303, shortened to its stem and extension
DefaultPath == <<"r">> \o DotMat

\* the state on entry to plot_results(mat_file), for one result file and path
Entry(source, path) ==
  /\ dm = source
  /\ mat_file = path
  /\ pc = "start"
  /\ time = <<>>
  /\ v = [n \in {VarNames[i] : i \in 1..Len(VarNames)} |-> None]
  /\ nres = 0
  /\ out = <<>>
  /\ subtitle = ""
  /\ fig = [k \in 1..6 |-> NewAxes]
  /\ output_file = <<>>
  /\ saved = {}

\* result files with at most MaxFaults deviating variables
Init ==
  \E j \in 0..MaxFaults : \E s \in FaultSets(j) : \E ks \in FaultKinds(s) :
    Entry(DataSource(Faulty(s, ks)), DefaultPath)

Spec == Init /\ [][Next]_vars

\* the variables whose listing and abscissa the time-base resolution can see
TimeNames == {"boiler.Q_actual", "boiler.T_inlet", "roomAir.T"}

\* names(): up to MaxNames distinct variables in any order
NameLists ==
  UNION { {s \in [1..k -> TimeNames] : \A i, j \in 1..k : i # j => s[i] # s[j]}
          : k \in 0..MaxNames }

\* abscissa(name): raises, or a time vector of 0..NSamples samples
AbscissaResults == {Raised} \cup {Some(SubSeq(FullSeries, 1, k)) : k \in 0..NSamples}

\* any listing and any abscissae, over nominal data
InitTime ==
  \E names \in NameLists, absc \in [TimeNames -> AbscissaResults] :
    Entry([names |-> names, absc |-> absc, data |-> NominalData], DefaultPath)

SpecTime == InitTime /\ [][Next]_vars

PathChars == {".", "m", "a", "t"}

\* input paths of 1..MaxPathLen characters
Paths == UNION { [1..k -> PathChars] : k \in 1..MaxPathLen }

\* any input path, over the nominal result file
InitPath == \E path \in Paths : Entry(DataSource(NominalData), path)

SpecPath == InitPath /\ [][Next]_vars

(* ------------------------------ properties ----------------------------- *)

NonEmpty(r) == r.ok /\ Len(r.s) > 0

\* the run has resolved a time base and gone on to report generation
Resolved == pc \notin {"start", "aborted"}

\* the first-listed variable yields a non-empty time sequence
FirstListedHasTime == Len(dm.names) > 0 /\ NonEmpty(abscissa(dm.names[1]))

\* some variable of the file other than the primary signal has time data
OtherHasTime ==
  \E i \in 1..Len(dm.names) :
    dm.names[i] # "boiler.Q_actual" /\ NonEmpty(abscissa(dm.names[i]))

\* no variable of the file has time data
NoTimeData == \A n \in DOMAIN dm.absc : ~NonEmpty(abscissa(n))

\* console lines of one kind
Printed(k, a) == \E i \in 1..Len(out) : out[i] = Line(k, a)
Count(k, a) == Cardinality({i \in 1..Len(out) : out[i] = Line(k, a)})
AnyOfKind(k) == \E i \in 1..Len(out) : out[i].k = k

\* C1 (amended): when the primary signal's abscissa cannot be read, the time
\* base is resolved exactly when the FIRST-LISTED variable has a non-empty
\* abscissa, and it is then that variable's abscissa; with no time data in
\* any variable the run is aborted.
C1_FirstListedFallback ==
  pc # "start" =>
    /\ ~abscissa("boiler.Q_actual").ok =>
         /\ Resolved <=> FirstListedHasTime
         /\ Resolved => time = abscissa(dm.names[1]).s
    /\ NoTimeData => pc = "aborted"

\* C1 witness: the primary abscissa failed and the run went on with the
\* first-listed variable's abscissa.
C1_Witness ==
  /\ pc = "vars"
  /\ ~abscissa("boiler.Q_actual").ok
  /\ dm.names[1] # "boiler.Q_actual"
  /\ time = abscissa(dm.names[1]).s

\* C1 (as claimed): when the primary signal's abscissa cannot be read and at
\* least one other named variable has a non-empty abscissa, the time base is
\* resolved and the run continues; with no time data the run is aborted.
C1_AnyVariableFallback ==
  pc # "start" =>
    /\ (~abscissa("boiler.Q_actual").ok /\ OtherHasTime) => Resolved
    /\ NoTimeData => pc = "aborted"

\* C2: when neither the primary signal nor the first-listed variable yields a
\* non-empty time sequence, the run ends by return with one diagnostic, having
\* resolved no signal, saved no image and printed no summary.
C2_FatalTimeBase ==
  (pc # "start" /\ ~NonEmpty(abscissa("boiler.Q_actual")) /\ ~FirstListedHasTime) =>
    /\ pc = "aborted"
    /\ Cardinality({i \in 1..Len(out) : out[i].k = "Error"}) = 1
    /\ nres = 0
    /\ \A n \in DOMAIN v : v[n] = None
    /\ saved = {}
    /\ output_file = <<>>
    /\ ~AnyOfKind("summary")
    /\ ~AnyOfKind("Plots saved to")

\* C2 witness: an aborted run whose fallback was tried and gave nothing.
C2_Witness ==
  /\ pc = "aborted"
  /\ ~abscissa("boiler.Q_actual").ok
  /\ Len(dm.names) > 0
  /\ ~FirstListedHasTime

\* C3: each get_var call made so far gave None with exactly one warning when
\* the lookup failed, and the series itself with no warning when it succeeded;
\* no exception leaves plot_results while the signals are being resolved.
C3_GetVarTotal ==
  /\ \A i \in 1..nres :
       LET n == VarNames[i] IN
       IF data(n).ok
       THEN v[n] = data(n) /\ Count("Warning", n) = 0
       ELSE v[n] = None /\ Count("Warning", n) = 1
  /\ \A i \in (nres + 1)..Len(VarNames) : Count("Warning", VarNames[i]) = 0
  /\ pc = "raised" => nres = Len(VarNames)

\* C3 witness: all 14 calls made, one lookup failed and one succeeded.
C3_Witness ==
  /\ nres = Len(VarNames)
  /\ ~data("boiler.T_outlet").ok /\ v["boiler.T_outlet"] = None
  /\ Count("Warning", "boiler.T_outlet") = 1
  /\ data("boiler.T_inlet").ok /\ v["boiler.T_inlet"] = data("boiler.T_inlet")

\* a panel shows at least one series / shows an explanatory label
Rendered(k) == fig[k].plots # {}
Placeholder(k) == fig[k].text # {}

\* C4 (as claimed): after a run that resolved a time base, each of the five
\* chart panels is exactly one of rendered or placeholder, a placeholder
\* carrying a label; the sixth panel is the reserved one.
C4_PanelTerminalStates ==
  pc = "done" =>
    /\ \A k \in 1..5 : Rendered(k) # Placeholder(k)
    /\ fig[6].off

\* a series the panel can draw against the time base
Usable(x) == x.ok /\ Len(x.s) = Len(time)

\* C5 (as claimed): an optional reference line or overlay series is drawn
\* whenever its panel is rendered and its own signal is there, whatever the
\* other optional signals of the panel are.
C5_Isolation ==
  pc = "done" =>
    /\ (Rendered(1) /\ First(data("boiler.modulationController.Q_min")).ok)
         => "Q_min" \in fig[1].refs
    /\ (Rendered(1) /\ First(data("boiler.modulationController.Q_max")).ok)
         => "Q_max" \in fig[1].refs
    /\ (Rendered(3) /\ Usable(data("boiler.primaryPump.N")))
         => "Primary Pump" \in fig[3].tplots
    /\ (Rendered(3) /\ Usable(data("secondaryPump.N")))
         => "Secondary Pump" \in fig[3].tplots

\* the signals each statistic line of the summary is computed from
LineSignals ==
  [a \in {"heat Average", "heat Maximum"} |-> {"boiler.Q_actual"}] @@
  ("boiler Average Inlet" :> {"boiler.T_inlet"}) @@
  ("boiler Average Outlet" :> {"boiler.T_outlet"}) @@
  ("boiler Average dT" :> {"boiler.T_inlet", "boiler.T_outlet"}) @@
  ("baseboard Average Inlet" :> {"baseboardPiping.mediums[1].T"}) @@
  ("baseboard Average Outlet" :> {"baseboardPiping.mediums[10].T"}) @@
  ("baseboard Average dT" :>
     {"baseboardPiping.mediums[1].T", "baseboardPiping.mediums[10].T"}) @@
  [a \in {"supply Average Temperature", "supply Final Temperature"} |->
     {"baseboardSupplyTempSensor.T"}] @@
  ("heat loss Average" :> {"baseboardHeatLoss.Q_flow"}) @@
  [a \in {"room Start", "room End", "room Rise"} |-> {"roomAir.T"}] @@
  ("Primary Loop" :> {"boiler.m_flow"}) @@
  ("Secondary Loop" :> {"secondaryPump.m_flow"})

\* C6 (as claimed): every run that resolved a time base prints the duration
\* line, and prints a statistic line exactly when every signal that line is
\* computed from is present.
C6_SummaryLines ==
  (pc \in {"done", "raised"}) =>
    /\ Printed("summary", "Simulation time")
    /\ \A a \in DOMAIN LineSignals :
         Printed("summary", a) <=> \A n \in LineSignals[a] : v[n].ok

\* the last "." of a path that starts an extension (0: the path has none)
ExtStart(path) ==
  LET dots == {i \in 2..Len(path) : path[i] = "."} IN
  IF dots = {} THEN 0 ELSE CHOOSE i \in dots : \A j \in dots : j <= i

\* the path with its extension replaced by '_plots.png'
ReplaceExtension(path) ==
  (IF ExtStart(path) = 0 THEN path ELSE SubSeq(path, 1, ExtStart(path) - 1)) \o PlotsPng

\* C7 (as claimed): the image is saved to the input path with its extension
\* replaced by '_plots.png', which is never the input path itself.
C7_OutputPath ==
  pc \in {"summary", "done"} =>
    /\ output_file = ReplaceExtension(mat_file)
    /\ output_file # mat_file
    /\ saved = {output_file}

\* C8 (as claimed): once a time base is resolved, no exception leaves
\* plot_results, whatever signals are absent, empty or of another length.
C8_NoFaultPastResolver == pc # "raised"

\* the largest sample of a signal, an absent signal counting as 0
MaxOrZero(x) == IF NonEmpty(x) THEN SeqMax(x.s) ELSE 0

\* C9 (as claimed): once the flow panel is drawn its y axis runs from 0 to
\* 1.2 times the largest GPM value, or to 10 when that is zero, and a
\* pump-speed overlay on it runs from 0 to 1.2 times the largest speed, or to
\* 1000 when that is zero.
C9_FlowScale ==
  (pc \in {"plot4", "plot5", "plot6", "save", "summary", "done"} /\ Rendered(3)) =>
    /\ fig[3].ybottom = Lim(0)
    /\ ~fig[3].ytop.auto /\ fig[3].ytop.val > 0
    /\ fig[3].ytop = Lim(FlowTop(Max2(Gpm(MaxOrZero(boiler_m_flow)),
                                      Gpm(MaxOrZero(secondary_pump_m_flow)))))
    /\ fig[3].twin =>
         /\ fig[3].tybottom = Lim(0)
         /\ fig[3].tytop = Lim(SpeedTop(Max2(MaxOrZero(data("boiler.primaryPump.N")),
                                             MaxOrZero(data("secondaryPump.N")))))

\* the series a power panel plots
PowerSeries(k) == IF k = 1 THEN boiler_Q ELSE baseboard_heat_loss

\* C10 (amended): a rendered boiler heat-output or baseboard heat-loss panel
\* has its y lower bound set to 0 and its y upper bound left automatic.
C10_PowerPanelsAutoTop ==
  \A k \in {1, 4} : Rendered(k) => fig[k].ybottom = Lim(0) /\ fig[k].ytop = Auto

\* C10 witness: a finished run with both power panels rendered.
C10_Witness == pc = "done" /\ Rendered(1) /\ Rendered(4)

\* C10 (as claimed): a rendered power panel runs from 0 to 120% of the
\* largest plotted value (in tenths of the sample unit), or to a fixed
\* ceiling when that is zero, like the flow panel.
C10_PowerPanelsScaledTop ==
  \A k \in {1, 4} :
    Rendered(k) =>
      /\ fig[k].ybottom = Lim(0)
      /\ ~fig[k].ytop.auto
      /\ MaxOrZero(PowerSeries(k)) > 0 => fig[k].ytop.val = MaxOrZero(PowerSeries(k)) * 12

====
